---- MODULE Spec2Model ----
(***************************************************************************)
(* A model of jquery.parsequery.js: $.parseQuery, its global defaults and  *)
(* the default decoder.                                                    *)
(*                                                                         *)
(* JavaScript strings are sequences of UTF-16 code units (naturals), so    *)
(* "a=b" is <<97, 61, 98>>.  JavaScript values are tagged records:         *)
(*   Str(s), Num(n), Null, Undefined, Arr(a), Inherited(name), Throw(..).  *)
(***************************************************************************)
EXTENDS Integers, Sequences, FiniteSets, TLC

\* ---------------------------------------------------------------- bounds
MaxLen == 3        \* every query over Alphabet of at most this length is parsed

\* ------------------------------------------------- characters of the code
QMARK == 63        \* '?'  stripped from the front of the query
EQUALS == 61       \* '='  splits a token into key and value
PLUS == 43         \* '+'  replaced by the default decoder
SPACE == 32        \* ' '  what it is replaced with
AMP == 38          \* '&'  the default separator
PERCENT == 37      \* '%'  introduces an escape in decodeURIComponent

\* ------------------------------------------------------ JavaScript values
Str(s) == [t |-> "str", s |-> s]
Num(n) == [t |-> "num", n |-> n]
Arr(a) == [t |-> "arr", a |-> a]
Null == [t |-> "null"]
Undefined == [t |-> "undefined"]
\* a property found on Object.prototype (a built-in function, or for
\* "__proto__" the prototype object itself)
Inherited(name) == [t |-> "obj", f |-> name]
\* a thrown exception: its constructor and the code that raised it
Throw(e, by) == [t |-> "throw", e |-> e, by |-> by]

IsThrow(v) == v.t = "throw"

\* ------------------------------------------------------- string helpers
RECURSIVE Join(_, _)
\* Array.prototype.join: the elements with glue between neighbours
Join(parts, glue) ==
    IF parts = <<>> THEN <<>>
    ELSE IF Len(parts) = 1 THEN parts[1]
    ELSE parts[1] \o glue \o Join(Tail(parts), glue)

StartsAt(s, lit, q) ==
    /\ q + Len(lit) - 1 <= Len(s)
    /\ \A k \in 1..Len(lit) : s[q + k - 1] = lit[k]

EndsWith(s, lit) ==
    /\ Len(lit) <= Len(s)
    /\ SubSeq(s, Len(s) - Len(lit) + 1, Len(s)) = lit

\* Separators: a string, or a regular expression that is one character
\* class such as /[&;]/.
SepString(s) == [kind |-> "string", s |-> s]
SepClass(cs) == [kind |-> "regexp", class |-> cs]

\* length of the separator match that starts at position q, 0 if none
MatchLen(s, sep, q) ==
    IF sep.kind = "string"
    THEN IF sep.s # <<>> /\ StartsAt(s, sep.s, q) THEN Len(sep.s) ELSE 0
    ELSE IF s[q] \in sep.class THEN 1 ELSE 0

RECURSIVE SplitFrom(_, _, _, _)
SplitFrom(s, sep, p, q) ==
    IF q > Len(s) THEN << SubSeq(s, p, Len(s)) >>
    ELSE LET m == MatchLen(s, sep, q)
         IN  IF m > 0
             THEN << SubSeq(s, p, q - 1) >> \o SplitFrom(s, sep, q + m, q + m)
             ELSE SplitFrom(s, sep, p, q + 1)

\* String.prototype.split(separator)
Split(s, sep) ==
    IF sep = Undefined THEN << s >>
    ELSE IF sep.kind = "string" /\ sep.s = <<>>
    THEN [k \in 1..Len(s) |-> << s[k] >>]
    ELSE SplitFrom(s, sep, 1, 1)

\* string.replace('+', ' '): a string pattern replaces the first match only
RECURSIVE ReplaceFirst(_, _, _)
ReplaceFirst(s, from, to) ==
    IF s = <<>> THEN <<>>
    ELSE IF Head(s) = from THEN << to >> \o Tail(s)
    ELSE << Head(s) >> \o ReplaceFirst(Tail(s), from, to)

\* ---------------------------------------------------- decodeURIComponent
HexVal(c) ==
    IF c \in 48..57 THEN c - 48
    ELSE IF c \in 65..70 THEN c - 55
    ELSE IF c \in 97..102 THEN c - 87
    ELSE -1

\* the octet written %XY at position q, -1 if there is no such escape
Octet(s, q) ==
    IF q + 2 > Len(s) \/ s[q] # PERCENT THEN -1
    ELSE IF HexVal(s[q + 1]) < 0 \/ HexVal(s[q + 2]) < 0 THEN -1
    ELSE 16 * HexVal(s[q + 1]) + HexVal(s[q + 2])

\* number of octets of the UTF-8 sequence a lead octet starts, 0 if invalid
SeqLen(b) ==
    IF b < 128 THEN 1
    ELSE IF b \in 194..223 THEN 2
    ELSE IF b \in 224..239 THEN 3
    ELSE IF b \in 240..244 THEN 4
    ELSE 0

IsCont(b) == b \in 128..191

\* the code point of the UTF-8 sequence of n octets b0 b1 b2 b3 (those past
\* the n-th are not looked at), -1 if the sequence is not valid
CodePoint(n, b0, b1, b2, b3) ==
    IF n = 1 THEN b0
    ELSE IF n = 2
    THEN IF IsCont(b1) THEN (b0 - 192) * 64 + (b1 - 128) ELSE -1
    ELSE IF n = 3
    THEN LET v == (b0 - 224) * 4096 + (b1 - 128) * 64 + (b2 - 128)
         IN  IF IsCont(b1) /\ IsCont(b2) /\ v >= 2048 /\ v \notin 55296..57343
             THEN v ELSE -1
    ELSE LET v == (b0 - 240) * 262144 + (b1 - 128) * 4096
                  + (b2 - 128) * 64 + (b3 - 128)
         IN  IF IsCont(b1) /\ IsCont(b2) /\ IsCont(b3) /\ v \in 65536..1114111
             THEN v ELSE -1

\* the UTF-16 code units of a code point
Utf16(v) ==
    IF v < 65536 THEN << v >>
    ELSE << 55296 + ((v - 65536) \div 1024), 56320 + ((v - 65536) % 1024) >>

Malformed == << -1 >>

\* the code point of the escape sequence of n octets at position q of s
EscapeAt(s, q, n) ==
    IF n = 0 THEN -1
    ELSE CodePoint(n, Octet(s, q), Octet(s, q + 3), Octet(s, q + 6),
                   Octet(s, q + 9))

\* the length of the sequence that the octet b starts, 0 if b is no lead
LeadLen(b) == IF b < 0 THEN 0 ELSE SeqLen(b)

RECURSIVE UriDecodeFrom(_, _, _)
\* out followed by the decoded rest of s from position q; Malformed if an
\* escape is bad
UriDecodeFrom(s, q, out) ==
    IF q > Len(s) THEN out
    ELSE IF s[q] # PERCENT THEN UriDecodeFrom(s, q + 1, Append(out, s[q]))
    ELSE LET Escape(n, v) ==
                 IF v < 0 THEN Malformed
                 ELSE UriDecodeFrom(s, q + 3 * n, out \o Utf16(v))
         IN  Escape(LeadLen(Octet(s, q)), EscapeAt(s, q, LeadLen(Octet(s, q))))

\* decodeURIComponent(s): the decoded string, or a thrown URIError
decodeURIComponent(s) ==
    LET r == UriDecodeFrom(s, 1, <<>>)
    IN  IF r = Malformed THEN Throw("URIError", "decodeURIComponent")
        ELSE Str(r)

\* ------------------------------------------------- parseInt and toString
NaN == [t |-> "nan"]
WhiteSpace == {9, 10, 11, 12, 13, SPACE}

RECURSIVE TrimLeft(_)
TrimLeft(s) ==
    IF s # <<>> /\ Head(s) \in WhiteSpace THEN TrimLeft(Tail(s)) ELSE s

DigitVal(c, radix) ==
    LET h == HexVal(c) IN IF h >= 0 /\ h < radix THEN h ELSE -1

RECURSIVE ParseDigits(_, _, _, _)
\* the number written by the longest digit prefix of s, NaN if it is empty
ParseDigits(s, radix, acc, seen) ==
    IF s # <<>> /\ DigitVal(Head(s), radix) >= 0
    THEN ParseDigits(Tail(s), radix, acc * radix + DigitVal(Head(s), radix), TRUE)
    ELSE IF seen THEN Num(acc) ELSE NaN

\* parseInt(string) with no radix argument
parseInt(s) ==
    LET s1 == TrimLeft(s)
        neg == s1 # <<>> /\ Head(s1) = 45
        s2 == IF s1 # <<>> /\ Head(s1) \in {PLUS, 45} THEN Tail(s1) ELSE s1
        hex == Len(s2) >= 2 /\ s2[1] = 48 /\ s2[2] \in {88, 120}
        r == IF hex THEN ParseDigits(SubSeq(s2, 3, Len(s2)), 16, 0, FALSE)
             ELSE ParseDigits(s2, 10, 0, FALSE)
    IN  IF r = NaN THEN NaN ELSE IF neg THEN Num(0 - r.n) ELSE r

RECURSIVE DigitsOf(_)
DigitsOf(n) ==
    IF n < 10 THEN << 48 + n >> ELSE DigitsOf(n \div 10) \o << 48 + (n % 10) >>

\* value.toString(): a string, or the TypeError of calling a method on
\* null or undefined
toString(v) ==
    IF v.t = "str" THEN v
    ELSE IF v.t = "num"
    THEN Str(IF v.n < 0 THEN << 45 >> \o DigitsOf(0 - v.n) ELSE DigitsOf(v.n))
    ELSE IF v.t = "nan" THEN Str(<< 78, 97, 78 >>)
    ELSE Throw("TypeError", "toString")

\* JavaScript truthiness; every array and object is truthy
Truthy(v) ==
    IF v.t \in {"undefined", "null", "nan"} THEN FALSE
    ELSE IF v.t = "str" THEN v.s # <<>>
    ELSE IF v.t = "num" THEN v.n # 0
    ELSE TRUE

\* ------------------------------------------------------------- decoders
\* A function value is a record naming the function.
Fn(name) == [fn |-> name]

\* $.parseQuery.default_decode
default_decode(string) ==
    decodeURIComponent(
        ReplaceFirst(IF Truthy(string) THEN string.s ELSE <<>>, PLUS, SPACE))

\* this.default_decode(input), with `this` the configuration of the call
ThisDefaultDecode(this, input) ==
    IF this.default_decode = Fn("default_decode") THEN default_decode(input)
    ELSE Throw("TypeError", "this.default_decode")

BRACKETS == <<91, 93>>    \* []
IDS == <<105, 100, 115>>  \* ids

\* isNaN(n) ? throw URIError(...) : n
OrThrow(n) == IF n = NaN THEN Throw("URIError", "decode") ELSE n

\* the decode function of the documentation's example: keys ending in []
\* are renamed to end in s, and the values of "ids" must be integers
readme_ids_decode(this, input, context) ==
    LET Decoded(d) ==
            IF IsThrow(d) THEN d
            ELSE IF context = Null
            THEN IF EndsWith(d.s, BRACKETS)
                 THEN Str(SubSeq(d.s, 1, Len(d.s) - 2) \o << 115 >>)
                 ELSE d
            ELSE IF context = Str(IDS) THEN OrThrow(parseInt(d.s))
            ELSE d
    IN  Decoded(ThisDefaultDecode(this, input))

\* a caller's decode that coerces every key and value to an integer
parse_int_decode(this, input, context) ==
    LET Decoded(d) == IF IsThrow(d) THEN d ELSE OrThrow(parseInt(d.s))
    IN  Decoded(ThisDefaultDecode(this, input))

\* config.decode(input, context): the call binds `this` to config
CallDecode(config, input, context) ==
    IF config.decode = Fn("default_decode") THEN default_decode(input)
    ELSE IF config.decode = Fn("readme_ids_decode")
    THEN readme_ids_decode(config, input, context)
    ELSE IF config.decode = Fn("parse_int_decode")
    THEN parse_int_decode(config, input, context)
    ELSE Throw("TypeError", "config.decode")

\* ----------------------------------------------------------- array_keys
\* the default: an object whose test method returns false
NeverArray == [kind |-> "object"]
\* the regular expressions /lit$/ (anchored = FALSE) and /^lit$/ (TRUE)
RegExp(anchored, lit) == [kind |-> "regexp", anchored |-> anchored, lit |-> lit]
\* a plain function: it has no test method
Predicate == [kind |-> "function"]

HasTest(array_keys) ==
    array_keys # Undefined /\ array_keys.kind \in {"object", "regexp"}

\* config.array_keys.test(key)
Test(array_keys, key) ==
    IF array_keys.kind = "regexp"
    THEN IF array_keys.anchored THEN key = array_keys.lit
         ELSE EndsWith(key, array_keys.lit)
    ELSE FALSE

\* -------------------------------------------------------------- objects
PROTO == <<95, 95, 112, 114, 111, 116, 111, 95, 95>>  \* __proto__

\* the property names every object created by {} inherits
ObjectPrototype == {
    <<99, 111, 110, 115, 116, 114, 117, 99, 116, 111, 114>>,  \* constructor
    <<104, 97, 115, 79, 119, 110, 80, 114, 111, 112, 101, 114, 116, 121>>,  \* hasOwnProperty
    <<105, 115, 80, 114, 111, 116, 111, 116, 121, 112, 101, 79, 102>>,  \* isPrototypeOf
    <<112, 114, 111, 112, 101, 114, 116, 121, 73, 115, 69, 110, 117, 109, 101, 114, 97, 98, 108, 101>>,  \* propertyIsEnumerable
    <<116, 111, 76, 111, 99, 97, 108, 101, 83, 116, 114, 105, 110, 103>>,  \* toLocaleString
    <<116, 111, 83, 116, 114, 105, 110, 103>>,  \* toString
    <<118, 97, 108, 117, 101, 79, 102>>,  \* valueOf
    PROTO }

\* {}: an object with no own properties
EmptyObject == [k \in {} |-> Undefined]

\* obj[key]: the own property, else the one inherited from Object.prototype
Get(obj, key) ==
    IF key \in DOMAIN obj THEN obj[key]
    ELSE IF key \in ObjectPrototype THEN Inherited(key)
    ELSE Undefined

\* obj[key] = v.  Assigning "__proto__" runs the inherited setter, which
\* creates no own property; the values assigned here are primitives (which
\* the setter ignores) or Object.prototype itself, so the prototype stays.
Put(obj, key, v) ==
    IF key = PROTO THEN obj
    ELSE [k \in DOMAIN obj \cup {key} |-> IF k = key THEN v ELSE obj[k]]

\* ------------------------------------------------------- configuration
\* Configurations, option objects and the properties of $.parseQuery are
\* records over the same fields; a field that is not set holds Undefined.
Object(q, sep, dec, ddec, ak) ==
    [query |-> q, separator |-> sep, decode |-> dec, default_decode |-> ddec,
     array_keys |-> ak]

Pick(from, old) == IF from # Undefined THEN from ELSE old

\* one source of jQuery.extend: copy every property that is not undefined
Assign(target, src) ==
    IF src = Undefined THEN target
    ELSE Object(Pick(src.query, target.query),
                Pick(src.separator, target.separator),
                Pick(src.decode, target.decode),
                Pick(src.default_decode, target.default_decode),
                Pick(src.array_keys, target.array_keys))

\* a merge in which the globals would win over the caller's options
extend_globals_last(target, globals, opts) ==
    Assign(Assign(target, opts), globals)

\* $.extend(config, $.parseQuery, options): later sources win
extend(target, globals, opts) == Assign(Assign(target, globals), opts)

\* config.query.replace(/^\?/, '')
StripQuestion(q) == IF q # <<>> /\ Head(q) = QMARK THEN Tail(q) ELSE q

\* ------------------------------------------------- the body of the loop
\* pair = param.split('=')
Pair(param) == Split(param, SepString(<< EQUALS >>))

\* pair.shift(): the first element, which leaves the array
RawKey(param) == Head(Pair(param))

\* a value that keeps only the text up to the second '='
RawValueSecondOnly(param) ==
    LET pair == Tail(Pair(param))
    IN  IF Truthy(Arr(pair)) THEN Str(IF pair = <<>> THEN <<>> ELSE Head(pair))
        ELSE Null

\* pair ? pair.join('=') : null, on what shift() left of the array
RawValue(param) ==
    LET pair == Tail(Pair(param))
    IN  IF Truthy(Arr(pair)) THEN Str(Join(pair, << EQUALS >>)) ELSE Null

\* an insertion at the front of the array
unshift(array, value) == << value >> \o array

\* params[key].push(value)
push(array, value) == Append(array, value)

Call(input, context, output) ==
    [input |-> input, context |-> context, output |-> output]

Outcome(params, calls, tested, thrown) ==
    [params |-> params, calls |-> calls, tested |-> tested, thrown |-> thrown]

\* the if statement of the loop body: accumulate or overwrite
Aggregate(config, params, key, value, calls) ==
    IF ~HasTest(config.array_keys)
    THEN Outcome(params, calls, <<>>, Throw("TypeError", "array_keys.test"))
    ELSE IF Test(config.array_keys, key)
    THEN LET cur == Get(params, key)
             p1 == Put(params, key, IF Truthy(cur) THEN cur ELSE Arr(<<>>))
             target == Get(p1, key)
         IN  IF target.t = "arr"
             THEN Outcome(Put(p1, key, Arr(push(target.a, value))),
                          calls, << key >>, Undefined)
             ELSE Outcome(p1, calls, << key >>, Throw("TypeError", "push"))
    ELSE Outcome(Put(params, key, value), calls, << key >>, Undefined)

\* the function handed to $.each, applied to one token: the new params,
\* the decode calls made, the keys array_keys was tested on, and the
\* exception that ended it (Undefined if none did)
Callback(config, params, param) ==
    LET rawKey == Str(RawKey(param))
        rawValue == RawValue(param)
        Value(c1, key, value) ==
            IF IsThrow(value)
            THEN Outcome(params, << c1, Call(rawValue, key, value) >>, <<>>, value)
            ELSE Aggregate(config, params, key.s, value,
                           << c1, Call(rawValue, key, value) >>)
        Key(c1, key) ==
            IF IsThrow(key) THEN Outcome(params, << c1 >>, <<>>, key)
            ELSE Value(c1, key, CallDecode(config, rawValue, key))
        Decoded(k) ==
            Key(Call(rawKey, Null, k), IF IsThrow(k) THEN k ELSE toString(k))
    IN  Decoded(CallDecode(config, rawKey, Null))

\* a loop that goes on to the next token whatever the callback did
each_swallow(i, thrown) == [pc |-> "each", i |-> i + 1]

\* $.each has no handler: an exception thrown by the callback leaves the
\* loop and $.parseQuery; otherwise the loop goes on to the next element
each_next(i, thrown) ==
    IF thrown # Undefined THEN [pc |-> "threw", i |-> i]
    ELSE [pc |-> "each", i |-> i + 1]

\* --------------------------------------------------------------- inputs
Alphabet == {97, EQUALS, AMP, PLUS}
Exhaustive == UNION {[1..n -> Alphabet] : n \in 0..MaxLen}

Examples == {
    <<63, 97, 61, 98, 38, 99, 61, 100>>,  \* ?a=b&c=d
    <<97, 61, 98, 38, 97, 61, 99>>,  \* a=b&a=c
    <<63, 97, 38, 98, 61, 99, 38, 61, 100, 38, 101, 61>>,  \* ?a&b=c&=d&e=
    <<97, 43, 98, 61, 99, 37, 50, 66, 100, 38, 37, 67, 51, 37, 65, 54, 61, 97, 101>>,  \* a+b=c%2Bd&%C3%A6=ae
    <<97, 61, 98, 61, 99, 38, 37, 51, 68, 61, 37, 50, 54>>,  \* a=b=c&%3D=%26
    <<97, 61, 37>>,  \* a=%
    <<97, 91, 93, 61, 98, 38, 97, 91, 93, 61, 99, 38, 100, 61, 101, 38, 100, 61, 102>>,  \* a[]=b&a[]=c&d=e&d=f
    <<105, 100, 115, 61, 49, 38, 110, 97, 109, 101, 115, 61, 102, 111, 111, 38, 110, 97, 109, 101, 115, 61, 98, 97, 114>>,  \* ids=1&names=foo&names=bar
    <<105, 100, 91, 93, 61, 49, 38, 105, 100, 91, 93, 61, 50>>,  \* id[]=1&id[]=2
    <<105, 100, 91, 93, 61, 49, 38, 105, 100, 91, 93, 61, 120>>,  \* id[]=1&id[]=x
    <<97, 61, 49, 59, 98, 61, 50, 38, 99, 61, 51>>,  \* a=1;b=2&c=3
    <<97, 43, 43, 98, 61, 99, 43, 43, 100>>,  \* a++b=c++d
    <<118, 97, 108, 117, 101, 79, 102, 61, 97, 38, 97, 61, 98>>,  \* valueOf=a&a=b
    <<95, 95, 112, 114, 111, 116, 111, 95, 95, 61, 97>>,  \* __proto__=a
    <<48, 49, 61, 49, 38, 49, 61, 50, 38, 120, 61, 51>>,  \* 01=1&1=2&x=3
    <<37, 70, 48, 37, 57, 70, 37, 57, 56, 37, 56, 48, 61, 37, 69, 68, 37, 65, 48, 37, 56, 48>>,  \* %F0%9F%98%80=%ED%A0%80
    <<97, 38, 98, 61, 38, 99, 61, 100>>,  \* a&b=&c=d
    <<97, 61, 49, 38, 98, 61, 50, 38, 97, 61, 51>>,  \* a=1&b=2&a=3
    <<49, 61, 49, 38, 120, 61, 50, 38, 51, 61, 51>>,  \* 1=1&x=2&3=3
    <<97, 61, 98, 38, 99, 61, 37, 38, 100, 61, 101>>,  \* a=b&c=%&d=e
    <<63, 63, 97>> }  \* ??a

Queries == Exhaustive \cup Examples

\* what the page's location may hold when no query is passed
Searches == { <<>>, <<63, 97, 61, 98, 38, 99, 61, 100>> }  \* "", ?a=b&c=d

Semicolon == SepString(<< 59 >>)
AmpOrSemicolon == SepClass({AMP, 59})
MatchAll == RegExp(FALSE, <<>>)
EndsInA == RegExp(FALSE, << 97 >>)

\* the values assigned to the global defaults
GlobalSeparators == {SepString(<< AMP >>), AmpOrSemicolon}
GlobalDecodes == {Fn("default_decode"), Fn("readme_ids_decode")}
GlobalArrayKeys == {NeverArray, MatchAll}

Options(sep, dec, ak) == Object(Undefined, sep, dec, Undefined, ak)

\* the option objects callers pass, before their query is filled in
OptionObjects ==
    {Options(sep, dec, ak) : sep \in {Undefined, Semicolon},
                             dec \in {Undefined, Fn("parse_int_decode")},
                             ak \in {Undefined, EndsInA}}
    \cup {Options(Undefined, Undefined, MatchAll),
          Options(Undefined, Undefined, Predicate),
          Options(Undefined, Undefined, RegExp(FALSE, BRACKETS)),
          Options(Undefined, Fn("readme_ids_decode"), RegExp(TRUE, IDS)),
          Options(SepString(<<>>), Undefined, Undefined),
          Options(SepString(<< AMP >>), Fn("default_decode"), NeverArray)}

\* the calls made: a string, an option object with a query, or neither, in
\* which case the page's location supplies the query
Arguments ==
    {<< Str(q), Str(<<>>) >> : q \in Queries}
    \cup {<< [o EXCEPT !.query = Str(q)], Str(<<>>) >> :
              o \in OptionObjects, q \in Queries}
    \cup {<< o, Str(s) >> : o \in OptionObjects \cup {Undefined}, s \in Searches}

\* ---------------------------------------------------------------- state
VARIABLES
    parseQuery,   \* the properties of the function $.parseQuery (the globals)
    pc,           \* "idle" (no call), "each" (in the loop), "returned", "threw"
    options,      \* the argument of the call, once a string has been wrapped
    config,       \* the local config
    tokens,       \* config.query.split(config.separator)
    i,            \* the index in tokens of the next element of the loop
    params,       \* the own properties of the local params
    calls,        \* history: the calls of config.decode made by this call
    tested,       \* history: the keys handed to config.array_keys.test
    result        \* what the call returned or threw

vars == << parseQuery, pc, options, config, tokens, i, params, calls, tested,
           result >>

NoConfig == Object(Undefined, Undefined, Undefined, Undefined, Undefined)

\* the locals of a call do not exist outside it
NoCall ==
    /\ options = Undefined
    /\ config = NoConfig
    /\ tokens = <<>>
    /\ i = 1
    /\ params = EmptyObject
    /\ calls = <<>>
    /\ tested = <<>>
    /\ result = Undefined

Init ==
    /\ parseQuery = Object(Undefined, SepString(<< AMP >>), Fn("default_decode"),
                           Fn("default_decode"), NeverArray)
    /\ pc = "idle"
    /\ NoCall

\* $.parseQuery(arg) up to the start of the loop
ParseQuery(arg, search) ==
    /\ pc = "idle"
    /\ LET opts == IF "t" \in DOMAIN arg /\ arg.t = "str"
                   THEN Object(arg, Undefined, Undefined, Undefined, Undefined)
                   ELSE arg
           config0 == Object(IF Truthy(search) THEN search ELSE Str(<<>>),
                             Undefined, Undefined, Undefined, Undefined)
           merged == extend(config0, parseQuery, opts)
           query == StripQuestion(merged.query.s)
       IN  /\ options' = opts
           /\ config' = [merged EXCEPT !.query = Str(query)]
           /\ tokens' = Split(query, merged.separator)
    /\ i' = 1
    /\ params' = EmptyObject
    /\ calls' = <<>>
    /\ tested' = <<>>
    /\ result' = Undefined
    /\ pc' = "each"
    /\ UNCHANGED parseQuery

\* one call of the callback by $.each
Each ==
    /\ pc = "each"
    /\ i <= Len(tokens)
    /\ \E r \in {Callback(config, params, tokens[i])} :
           /\ params' = r.params
           /\ calls' = calls \o r.calls
           /\ tested' = tested \o r.tested
           /\ pc' = each_next(i, r.thrown).pc
           /\ i' = each_next(i, r.thrown).i
           /\ result' = IF each_next(i, r.thrown).pc = "threw" THEN r.thrown
                        ELSE result
    /\ UNCHANGED << parseQuery, options, config, tokens >>

\* return params
Return ==
    /\ pc = "each"
    /\ i > Len(tokens)
    /\ pc' = "returned"
    /\ result' = [t |-> "object", own |-> params]
    /\ UNCHANGED << parseQuery, options, config, tokens, i, params, calls, tested >>

\* the caller runs on with what the call returned or threw; the locals of
\* the finished call are gone
Resume ==
    /\ pc \in {"returned", "threw"}
    /\ options' = Undefined
    /\ config' = NoConfig
    /\ tokens' = <<>>
    /\ i' = 1
    /\ params' = EmptyObject
    /\ calls' = <<>>
    /\ tested' = <<>>
    /\ result' = Undefined
    /\ pc' = "idle"
    /\ UNCHANGED parseQuery

\* $.parseQuery.separator = v
SetSeparator(v) ==
    /\ pc = "idle"
    /\ parseQuery' = [parseQuery EXCEPT !.separator = v]
    /\ UNCHANGED << pc, options, config, tokens, i, params, calls, tested,
                    result >>

\* $.parseQuery.decode = v
SetDecode(v) ==
    /\ pc = "idle"
    /\ parseQuery' = [parseQuery EXCEPT !.decode = v]
    /\ UNCHANGED << pc, options, config, tokens, i, params, calls, tested,
                    result >>

\* $.parseQuery.array_keys = v
SetArrayKeys(v) ==
    /\ pc = "idle"
    /\ parseQuery' = [parseQuery EXCEPT !.array_keys = v]
    /\ UNCHANGED << pc, options, config, tokens, i, params, calls, tested,
                    result >>

Next ==
    \/ \E a \in Arguments : ParseQuery(a[1], a[2])
    \/ Each
    \/ Return
    \/ Resume
    \/ \E v \in GlobalSeparators : SetSeparator(v)
    \/ \E v \in GlobalDecodes : SetDecode(v)
    \/ \E v \in GlobalArrayKeys : SetArrayKeys(v)

Spec == Init /\ [][Next]_vars

\* ================================================================ claims
Has(s, c) == \E k \in 1..Len(s) : s[k] = c

\* a call in progress got through token j: both its decode calls are logged
Decoded(j) == j \in 1..Len(tokens) /\ 2 * j <= Len(calls)

KeyCall(j) == calls[2 * j - 1]
ValueCall(j) == calls[2 * j]

\* the key under which token j is stored, and the value stored for it
KeyAt(j) == toString(KeyCall(j).output).s
ValueAt(j) == ValueCall(j).output

\* the values of the tokens whose decoded key is key, in input order
ValuesOf(key) ==
    LET idx == SelectSeq([j \in 1..Len(tokens) |-> j], LAMBDA j : KeyAt(j) = key)
    IN  [n \in 1..Len(idx) |-> ValueAt(idx[n])]

\* the last token whose decoded key is key
LastOf(key) ==
    CHOOSE j \in 1..Len(tokens) :
        /\ KeyAt(j) = key
        /\ \A m \in (j + 1)..Len(tokens) : KeyAt(m) # key

NoDecodeRaised == \A n \in 1..Len(calls) : ~IsThrow(calls[n].output)

Finished == pc \in {"returned", "threw"}

\* the fields the caller gave; none when the call had no option object
Given == IF options = Undefined THEN NoConfig ELSE options

\* C1: for a token without '=' the value is decoded from null with the
\* decoded key as context, and for a token "k=" from the empty string.
C1_ValuelessTokenDecodesNull ==
    \A j \in 1..Len(tokens) :
        Decoded(j) =>
            /\ ValueCall(j).context = toString(KeyCall(j).output)
            /\ ~Has(tokens[j], EQUALS) => ValueCall(j).input = Null
            /\ (Has(tokens[j], EQUALS) /\ KeyCall(j).input.s \o << EQUALS >> = tokens[j])
                   => ValueCall(j).input = Str(<<>>)

\* C2: in the returned mapping every key that array_keys matches holds the
\* sequence of the decoded values of all tokens with that decoded key, in
\* the order of the tokens in the query.
C2_ArrayKeyAccumulatesInOrder ==
    pc = "returned" =>
        \A j \in 1..Len(tokens) :
            Test(config.array_keys, KeyAt(j)) =>
                /\ KeyAt(j) \in DOMAIN result.own
                /\ result.own[KeyAt(j)] = Arr(ValuesOf(KeyAt(j)))

\* a returned mapping in which an array key collected two different values
\* around a token with another key
C2_Witness ==
    /\ pc = "returned"
    /\ \E j1, j2, j3 \in 1..Len(tokens) :
           /\ j1 < j2 /\ j2 < j3
           /\ KeyAt(j1) = KeyAt(j3) /\ KeyAt(j2) # KeyAt(j1)
           /\ ValueAt(j1) # ValueAt(j3)
           /\ Test(config.array_keys, KeyAt(j1))
           /\ result.own[KeyAt(j1)] = Arr(<< ValueAt(j1), ValueAt(j3) >>)

\* C3: in the returned mapping every key that array_keys does not match
\* holds the single decoded value of the last token with that decoded key.
C3_ScalarKeyHoldsLastValue ==
    pc = "returned" =>
        \A j \in 1..Len(tokens) :
            ~Test(config.array_keys, KeyAt(j)) =>
                /\ KeyAt(j) \in DOMAIN result.own
                /\ result.own[KeyAt(j)] = ValueAt(LastOf(KeyAt(j)))

\* C4: when array_keys is a function and no decode call raises, the call
\* ends by returning a mapping.
C4_FunctionArrayKeysReturns ==
    (Finished /\ config.array_keys = Predicate /\ NoDecodeRaised)
        => pc = "returned"

\* C5: the default decode turns every literal '+' of its input into ' '
\* (stated for the inputs without escapes, where positions are kept).
C5_EveryPlusBecomesSpace ==
    \A n \in 1..Len(calls) :
        (/\ config.decode = Fn("default_decode")
         /\ calls[n].input.t = "str"
         /\ ~Has(calls[n].input.s, PERCENT))
            => calls[n].output
                   = Str([k \in 1..Len(calls[n].input.s) |->
                            IF calls[n].input.s[k] = PLUS THEN SPACE
                            ELSE calls[n].input.s[k]])

\* C6: a decode call that raises is the last one of its parse, and the
\* parse ends by raising that same error instead of returning a mapping.
C6_DecodeErrorEndsParse ==
    \A n \in 1..Len(calls) :
        IsThrow(calls[n].output) =>
            /\ n = Len(calls)
            /\ pc = "threw"
            /\ result = calls[n].output

\* a caller's decode raised on the second of three tokens, after the first
\* token had been stored
C6_Witness ==
    /\ pc = "threw"
    /\ Len(tokens) = 3 /\ Len(calls) = 3
    /\ result = Throw("URIError", "decode")
    /\ params # EmptyObject

\* C7: each of separator, decode and array_keys of a call is the field of
\* its options when given, otherwise the global default as last assigned,
\* and the query is split by that separator.
C7_OptionsThenGlobals ==
    pc # "idle" =>
        /\ config.separator = Pick(Given.separator, parseQuery.separator)
        /\ config.decode = Pick(Given.decode, parseQuery.decode)
        /\ config.array_keys = Pick(Given.array_keys, parseQuery.array_keys)
        /\ tokens = Split(config.query.s,
                          Pick(Given.separator, parseQuery.separator))

\* after both globals were reassigned, a call that gives array_keys but no
\* separator split by the global separator and kept a scalar key that the
\* global array_keys would have matched
C7_Witness ==
    /\ pc = "returned"
    /\ parseQuery.separator = AmpOrSemicolon
    /\ parseQuery.array_keys = MatchAll
    /\ Given.separator = Undefined
    /\ Given.array_keys = EndsInA
    /\ Len(tokens) = 3
    /\ \E key \in DOMAIN result.own : result.own[key].t # "arr"
    /\ \E key \in DOMAIN result.own : result.own[key].t = "arr"

\* C8: with array_keys an object that has a test method (the default or a
\* pattern), a parse can only end by an error that a decode call raised.
C8_OnlyDecodeErrors ==
    (pc = "threw" /\ HasTest(config.array_keys)) => ~NoDecodeRaised

\* C9: for a token with an '=', the raw key holds no '=' and raw key, '='
\* and raw value put together are the token.
C9_FirstEqualsSplits ==
    \A j \in 1..Len(tokens) :
        (Decoded(j) /\ Has(tokens[j], EQUALS)) =>
            /\ ValueCall(j).input.t = "str"
            /\ ~Has(KeyCall(j).input.s, EQUALS)
            /\ KeyCall(j).input.s \o << EQUALS >> \o ValueCall(j).input.s
                   = tokens[j]

\* a token with a non-empty key whose raw value itself holds an '='
C9_Witness ==
    \E j \in 1..Len(tokens) :
        /\ Decoded(j)
        /\ KeyCall(j).input.s # <<>>
        /\ ValueCall(j).input.t = "str"
        /\ Has(ValueCall(j).input.s, EQUALS)
        /\ Len(ValueCall(j).input.s) > 1

\* C10: a parse of N tokens in which no decode call raises makes exactly 2N
\* decode calls, token by token from the left: the raw key with context
\* null, then the raw value with the stringified decoded key as context,
\* and array_keys is tested on that decoded key.
C10_TwoCallsPerToken ==
    (Finished /\ NoDecodeRaised) =>
        /\ Len(calls) = 2 * Len(tokens)
        /\ \A j \in 1..Len(tokens) :
               /\ KeyCall(j).input = Str(RawKey(tokens[j]))
               /\ KeyCall(j).context = Null
               /\ ValueCall(j).context = toString(KeyCall(j).output)
               /\ j <= Len(tested) => tested[j] = KeyAt(j)

====
